---- MODULE Spec2Model ----
(***************************************************************************)
(* Model of pain_journal_update.py: a sequential batch pipeline            *)
(*   feeds -> resolve PMID -> fetch abstract/authors -> classify ->        *)
(*   summarize -> render HTML digest -> send.                              *)
(* Python strings are TLA+ strings; Python's None is the value None below. *)
(* External services (PubMed, the language model, SMTP) are modelled as    *)
(* nondeterministic responses drawn from small sets.                       *)
(***************************************************************************)
EXTENDS Integers, Sequences, FiniteSets, TLC

VARIABLES
  pc,                      \* position of the run
  openai_key_set,          \* whether the run has an OpenAI API key
  feed_pos,                \* index into FEEDS of the feed being processed
  entry_idx,               \* entries of the current feed already processed
  articles,                \* main: articles
  publication_types,       \* main: publication_types
  summaries_and_contexts,  \* main: summaries_and_contexts
  calls,                   \* external calls issued so far, in order
  entry_log,               \* one record per processed feed entry, in order:
                           \* what main did with it, and for a retained
                           \* entry the values it appended
  html,                    \* the rendered digest (sequence of elements)
  fn,                      \* pure-function harness: function applied
  arg,                     \* pure-function harness: its input
  ret                      \* pure-function harness: its result

vars == <<pc, openai_key_set, feed_pos, entry_idx, articles,
          publication_types, summaries_and_contexts, calls, entry_log, html, fn, arg, ret>>

mainVars == <<pc, openai_key_set, feed_pos, entry_idx, articles,
              publication_types, summaries_and_contexts, calls, entry_log, html>>

mainVarsButPc == <<openai_key_set, feed_pos, entry_idx, articles,
                   publication_types, summaries_and_contexts, calls,
                   entry_log, html>>

(***************************************************************************)
(* Python values and string primitives                                     *)
(***************************************************************************)

\* Python's None.  No input string of the model equals it.
None == "<None>"

\* Python truthiness of an optional string: None and "" are falsy.
Truthy(v) == v # None /\ v # ""

\* Printable ASCII in code-point order: code points 32..95 and 97..126.
AsciiLow ==
  " !\"#$%&'()*+,-./0123456789:;<=>?@ABCDEFGHIJKLMNOPQRSTUVWXYZ[\\]^_"

AsciiHigh == "abcdefghijklmnopqrstuvwxyz{|}~"

CharAt(s, i) == SubSeq(s, i, i)

\* ord(c) for a one-character string; "\n" is code point 10.
Ord(c) ==
  IF c = "\n" THEN 10
  ELSE IF \E i \in 1..Len(AsciiLow) : CharAt(AsciiLow, i) = c
       THEN 31 + (CHOOSE i \in 1..Len(AsciiLow) : CharAt(AsciiLow, i) = c)
       ELSE 96 + (CHOOSE i \in 1..Len(AsciiHigh) : CharAt(AsciiHigh, i) = c)

UpperLetters == "ABCDEFGHIJKLMNOPQRSTUVWXYZ"

LowerLetters == "abcdefghijklmnopqrstuvwxyz"

\* c.lower() for a one-character string
LowerChar(c) ==
  IF \E i \in 1..26 : CharAt(UpperLetters, i) = c
  THEN CharAt(LowerLetters, CHOOSE i \in 1..26 : CharAt(UpperLetters, i) = c)
  ELSE c

\* str.lower()
RECURSIVE Lower(_)
Lower(s) ==
  IF s = "" THEN ""
  ELSE IF Len(s) = 1 THEN LowerChar(s)
  ELSE Lower(SubSeq(s, 1, Len(s) \div 2))
       \o Lower(SubSeq(s, Len(s) \div 2 + 1, Len(s)))

\* Python's `k in s` on strings
Contains(k, s) ==
  IF Len(k) = 0 THEN TRUE
  ELSE \E i \in 1..(Len(s) - Len(k) + 1) : SubSeq(s, i, i + Len(k) - 1) = k

\* Python's `a < b` on strings: lexicographic by code point.
StrLess(a, b) ==
  LET n == IF Len(a) < Len(b) THEN Len(a) ELSE Len(b)
      diffs == { i \in 1..n : CharAt(a, i) # CharAt(b, i) }
  IN IF diffs = {} THEN Len(a) < Len(b)
     ELSE LET i == CHOOSE d \in diffs : \A e \in diffs : d <= e
          IN Ord(CharAt(a, i)) < Ord(CharAt(b, i))

\* The characters str.strip() removes, among those a string of this module
\* can hold (printable ASCII and the escapes \t, \n, \r, \f).
IsSpace(c) == c \in {" ", "\t", "\n", "\r", "\f"}

\* str.strip()
Strip(s) ==
  LET kept == { i \in 1..Len(s) : ~IsSpace(CharAt(s, i)) }
  IN IF kept = {} THEN ""
     ELSE SubSeq(s, CHOOSE i \in kept : \A j \in kept : i <= j,
                    CHOOSE i \in kept : \A j \in kept : j <= i)

\* str.replace(old, new) for non-empty old: leftmost, non-overlapping.
RECURSIVE Replace(_, _, _)
Replace(s, old, new) ==
  LET hits == { i \in 1..(Len(s) - Len(old) + 1) :
                  SubSeq(s, i, i + Len(old) - 1) = old }
  IN IF hits = {} THEN s
     ELSE LET i == CHOOSE h \in hits : \A g \in hits : h <= g
          IN SubSeq(s, 1, i - 1) \o new
             \o Replace(SubSeq(s, i + Len(old), Len(s)), old, new)

\* " ".join(parts)
RECURSIVE Join(_)
Join(parts) ==
  IF Len(parts) = 0 THEN ""
  ELSE IF Len(parts) = 1 THEN parts[1]
  ELSE parts[1] \o " " \o Join(Tail(parts))

SeqRange(s) == { s[i] : i \in 1..Len(s) }

(***************************************************************************)
(* Configuration                                                           *)
(***************************************************************************)

\* The keys of FEEDS, in dictionary order.
FEEDS ==
  <<
    "Interventional Pain Medicine",
    "Regional Anesthesia & Pain Medicine",
    "Pain Medicine",
    "Pain Practice",
    "Pain",
    "Journal of Pain Research"
  >>

SPINE_KEYWORDS ==
  <<
    "spine", "spinal", "cervical", "thoracic",
    "lumbar", "sacral", "vertebr", "disc",
    "disk", "scoliosis", "kyphosis", "lordosis",
    "myelopathy", "radiculopathy", "lumbar stenosis", "cervical stenosis",
    "fusion", "laminectomy", "discectomy", "foraminotomy",
    "decompression", "interbody", "pedicle", "screw",
    "cage", "rod", "plate", "cauda equina",
    "thecal sac"
  >>

EXCLUSION_KEYWORDS ==
  <<
    "cerebrospinal", "deep brain stimulation", "dbs", "brain stimulation",
    "subthalamic", "subthalamic nucleus", "cerebral", "cerebrum",
    "cerebellum", "transcranial", "intracranial", "pneumocephalus",
    "cranial", "craniotomy", "electroencephalogram", "eeg",
    "brain", "brain surgery", "neurosurgery AND NOT spine",
    "neurosurgical AND NOT spine",
    "parkinson", "alzheimer", "epilepsy", "seizure",
    "glioma", "meningioma", "brain tumor"
  >>

\* PUBLICATION_TYPES as <<label, colour>> pairs in dictionary order.
PUBLICATION_TYPES ==
  <<
    <<"Case Report", "#98fb98">>,
    <<"Case Series", "#8fbc8f">>,
    <<"Retrospective Case Control", "#b0c4de">>,
    <<"Retrospective Cohort", "#87cefa">>,
    <<"Cross-sectional Study", "#add8e6">>,
    <<"Prospective Cohort", "#e0b0ff">>,
    <<"Prospective Study", "#dda0dd">>,
    <<"Randomized Clinical Trial", "#ffa07a">>,
    <<"Non-randomized Trial", "#f4a460">>,
    <<"Systematic Review", "#ffb6c1">>,
    <<"Meta-Analysis", "#ffd700">>,
    <<"Narrative Review", "#eee8aa">>,
    <<"Clinical Practice Guideline", "#98fb98">>,
    <<"Technical Note", "#d3d3d3">>,
    <<"Biomechanical Study", "#afeeee">>,
    <<"Cadaveric Study", "#bc8f8f">>,
    <<"Animal Study", "#f0e68c">>,
    <<"Basic Science Research", "#7fffd4">>,
    <<"Quality Improvement", "#ff7f50">>,
    <<"Cost-effectiveness Analysis", "#da70d6">>,
    <<"Other", "#f5f5f5">>
  >>

\* PUBLICATION_TYPES.keys()
PublicationTypeKeys == { PUBLICATION_TYPES[i][1] : i \in 1..Len(PUBLICATION_TYPES) }

\* PUBLICATION_TYPES.get(pub_type, PUBLICATION_TYPES['Other'])
PublicationTypeColor(pub_type) ==
  IF pub_type \in PublicationTypeKeys
  THEN (CHOOSE p \in SeqRange(PUBLICATION_TYPES) : p[1] = pub_type)[2]
  ELSE (CHOOSE p \in SeqRange(PUBLICATION_TYPES) : p[1] = "Other")[2]

(***************************************************************************)
(* is_spine_related                                                        *)
(***************************************************************************)

\* search_text of is_spine_related (title is truthy here)
SearchText(title, description) ==
  IF Truthy(description)
  THEN Lower(title) \o " " \o Lower(description)
  ELSE Lower(title)

\* A defect for comparison: the exclusion list is never consulted.
is_spine_related_NoExclusion(title, description) ==
  /\ Truthy(title)
  /\ \E i \in 1..Len(SPINE_KEYWORDS) :
        Contains(Lower(SPINE_KEYWORDS[i]), SearchText(title, description))

is_spine_related(title, description) ==
  IF ~Truthy(title) THEN FALSE
  ELSE LET search_text == SearchText(title, description)
           has_spine_keyword ==
             \E i \in 1..Len(SPINE_KEYWORDS) :
                Contains(Lower(SPINE_KEYWORDS[i]), search_text)
       IN IF ~has_spine_keyword THEN FALSE
          ELSE ~(\E j \in 1..Len(EXCLUSION_KEYWORDS) :
                    Contains(Lower(EXCLUSION_KEYWORDS[j]), search_text))

(***************************************************************************)
(* determine_publication_type                                              *)
(***************************************************************************)

\* defined_type.lower() for each key of PUBLICATION_TYPES, in order.
LoweredTypes ==
  [i \in 1..Len(PUBLICATION_TYPES) |-> Lower(PUBLICATION_TYPES[i][1])]

\* The normalisation loop from key i on: the first key, in dictionary order,
\* whose lower-cased form occurs in lowered (the lower-cased response).
RECURSIVE NormalizeFrom(_, _)
NormalizeFrom(i, lowered) ==
  IF i > Len(PUBLICATION_TYPES) THEN "Other"
  ELSE IF Contains(LoweredTypes[i], lowered)
       THEN PUBLICATION_TYPES[i][1]
       ELSE NormalizeFrom(i + 1, lowered)

\* A defect for comparison: the comparison is case-sensitive.
RECURSIVE NormalizeCaseSensitiveFrom(_, _)
NormalizeCaseSensitiveFrom(i, pub_type) ==
  IF i > Len(PUBLICATION_TYPES) THEN "Other"
  ELSE IF Contains(PUBLICATION_TYPES[i][1], pub_type)
       THEN PUBLICATION_TYPES[i][1]
       ELSE NormalizeCaseSensitiveFrom(i + 1, pub_type)

determine_publication_type_CaseSensitive(abstract, llm) ==
  IF llm.kind = "ok" /\ llm.content # None
  THEN NormalizeCaseSensitiveFrom(1, Strip(llm.content))
  ELSE "Other"

\* llm is the outcome of the completion call made inside the try block:
\* kind "ok" with the message content, or kind "error" (an exception).
\* A content of None makes .strip() raise, which the except clause catches.
determine_publication_type(abstract, llm) ==
  IF llm.kind = "ok" /\ llm.content # None
  THEN NormalizeFrom(1, Lower(Strip(llm.content)))
  ELSE "Other"

(***************************************************************************)
(* fetch_emails_from_airtable                                              *)
(***************************************************************************)

\* record['fields'].get("Email"): None when the field is absent.
EmailOf(record) == record.fields.Email

\* response is the decoded JSON body: has_records tells whether it has a
\* "records" key, records is the list under it.
fetch_emails_from_airtable(response) ==
  LET records == IF response.has_records THEN response.records ELSE <<>>
      kept == SelectSeq(records, LAMBDA record : Truthy(EmailOf(record)))
  IN [i \in 1..Len(kept) |-> Strip(EmailOf(kept[i]))]

(***************************************************************************)
(* get_pmid                                                                *)
(***************************************************************************)

\* response is what the esearch request produces: raises (network or XML
\* parse exception), status_code and the texts of the Id elements of IdList.
get_pmid(title, journal, response) ==
  IF response.raises THEN None
  ELSE IF response.status_code = 200 /\ Len(response.id_list) > 0
       THEN response.id_list[1]
       ELSE None

(***************************************************************************)
(* get_abstract_and_authors                                                *)
(***************************************************************************)

\* The composed names of the <Author> elements that have a LastName text:
\* "LastName Initials" when Initials has text, else "LastName".
RECURSIVE AuthorNames(_)
AuthorNames(author_elements) ==
  IF Len(author_elements) = 0 THEN <<>>
  ELSE LET author == Head(author_elements)
           rest == AuthorNames(Tail(author_elements))
       IN IF Truthy(author.LastName)
          THEN <<IF Truthy(author.Initials)
                 THEN author.LastName \o " " \o author.Initials
                 ELSE author.LastName>> \o rest
          ELSE rest

\* A defect for comparison: a record without abstract text yields "".join
\* of nothing plus a placeholder instead of "no data".
get_abstract_and_authors_KeepEmpty(pmid, response) ==
  IF ~Truthy(pmid) \/ response.raises \/ response.status_code # 200
  THEN <<None, None, None>>
  ELSE LET abstract_sections == response.abstract_sections
           authors == AuthorNames(response.author_elements)
           text == Join(SelectSeq(abstract_sections, Truthy))
           abstract == IF text = "" THEN "No abstract available" ELSE text
       IN IF Len(authors) = 0 THEN <<abstract, None, None>>
          ELSE <<abstract, authors[1],
                 IF Len(authors) > 1 THEN authors[Len(authors)] ELSE None>>

\* response is what the efetch request produces: raises (network or XML
\* parse exception), status_code, the texts of the AbstractText elements
\* (None for an element without text) and the Author elements.
\* Returns <<abstract, first_author, last_author>>.
get_abstract_and_authors(pmid, response) ==
  IF ~Truthy(pmid) THEN <<None, None, None>>
  ELSE IF response.raises THEN <<None, None, None>>
  ELSE IF response.status_code # 200 THEN <<None, None, None>>
  ELSE LET abstract_sections == response.abstract_sections
       IN IF Len(abstract_sections) = 0
             \/ \A i \in 1..Len(abstract_sections) : ~Truthy(abstract_sections[i])
          THEN <<None, None, None>>
          ELSE LET abstract == Join(SelectSeq(abstract_sections, Truthy))
                   authors == AuthorNames(response.author_elements)
               IN IF Len(authors) = 0 THEN <<abstract, None, None>>
                  ELSE LET first_author == authors[1]
                           last_author == IF Len(authors) > 1
                                          THEN authors[Len(authors)] ELSE None
                       IN <<abstract, first_author, last_author>>

\* A defect for comparison: the request is issued without the delay.
FetchCalls_NoDelay(pmid) ==
  IF ~Truthy(pmid) THEN <<>> ELSE <<"efetch">>

\* The external calls get_abstract_and_authors issues for pmid, in order.
FetchCalls(pmid) ==
  IF ~Truthy(pmid) THEN <<>> ELSE <<"sleep", "efetch">>

(***************************************************************************)
(* summarize_and_context                                                   *)
(***************************************************************************)

SummaryHeading ==
  "<div style=\"font-weight: bold; color: #333; margin-top: 12px; margin-bottom: 6px;\">Summary<div style=\"width: 60px; height: 2px; background-color: #2e8b57; margin-top: 3px;\"></div></div>"

ContextHeading ==
  "<div style=\"font-weight: bold; color: #333; margin-top: 12px; margin-bottom: 6px;\">Context<div style=\"width: 60px; height: 2px; background-color: #2e8b57; margin-top: 3px;\"></div></div>"

\* str(e) of the AttributeError raised by None.strip()
NoneStripMessage == "'NoneType' object has no attribute 'strip'"

\* llm as for determine_publication_type; an error carries its message, and
\* a content of None makes .strip() raise inside the try block.
summarize_and_context(abstract, first_author, last_author, llm) ==
  IF llm.kind = "ok" /\ llm.content # None
  THEN Replace(Replace(Strip(llm.content), "Summary", SummaryHeading),
               "Context", ContextHeading)
  ELSE IF llm.kind = "ok"
       THEN "Error generating summary and context: " \o NoneStripMessage
       ELSE "Error generating summary and context: " \o llm.message

(***************************************************************************)
(* generate_html                                                           *)
(* The document is modelled as the sequence of the elements the template   *)
(* emits, each with the values interpolated into it.  orig_idx is the loop *)
(* variable of the same name (0-based position in the input list).         *)
(***************************************************************************)

\* A defect for comparison: a new group is opened whenever the journal
\* changes, so a journal whose articles are not adjacent loses its earlier
\* articles.
JournalGroup_LastRun(articles_, journal) ==
  LET F[k \in 0..Len(articles_)] ==
        IF k = 0 THEN <<>>
        ELSE IF articles_[k].journal = journal
             THEN IF k > 1 /\ articles_[k - 1].journal # journal
                  THEN << <<k - 1, articles_[k]>> >>
                  ELSE Append(F[k - 1], <<k - 1, articles_[k]>>)
             ELSE F[k - 1]
  IN F[Len(articles_)]

\* journal_groups[journal]: the (idx, article) pairs of that journal, in
\* input order.
JournalGroup(articles_, journal) ==
  LET F[k \in 0..Len(articles_)] ==
        IF k = 0 THEN <<>>
        ELSE IF articles_[k].journal = journal
             THEN Append(F[k - 1], <<k - 1, articles_[k]>>)
             ELSE F[k - 1]
  IN F[Len(articles_)]

\* journal_groups.keys()
JournalKeys(articles_) == { articles_[i].journal : i \in 1..Len(articles_) }

\* sorted(keys): ascending by Python string comparison.
RECURSIVE Sorted(_)
Sorted(keys) ==
  IF keys = {} THEN <<>>
  ELSE LET m == CHOOSE x \in keys : \A y \in keys \ {x} : StrLess(x, y)
       IN <<m>> \o Sorted(keys \ {m})

\* A defect for comparison: the journals are left in first-seen order.
RECURSIVE FirstSeen(_, _)
FirstSeen(articles_, seen) ==
  IF Len(articles_) = 0 THEN <<>>
  ELSE IF Head(articles_).journal \in seen
       THEN FirstSeen(Tail(articles_), seen)
       ELSE <<Head(articles_).journal>>
            \o FirstSeen(Tail(articles_), seen \cup {Head(articles_).journal})

sorted_journals_Unsorted(articles_) == FirstSeen(articles_, {})

sorted_journals(articles_) == Sorted(JournalKeys(articles_))

\* The original indices in the order the mapping loop visits them.
RECURSIVE VisitOrder(_, _)
VisitOrder(articles_, journals) ==
  IF Len(journals) = 0 THEN <<>>
  ELSE LET group == JournalGroup(articles_, Head(journals))
       IN [k \in 1..Len(group) |-> group[k][1]]
          \o VisitOrder(articles_, Tail(journals))

\* A defect for comparison: the counter restarts for every journal.
article_index_map_PerJournal(articles_) ==
  [orig_idx \in 0..(Len(articles_) - 1) |->
     LET group == JournalGroup(articles_, articles_[orig_idx + 1].journal)
     IN (CHOOSE k \in 1..Len(group) : group[k][1] = orig_idx) - 1]

\* article_index_map: original index -> 0-based position in sorted order.
article_index_map(articles_) ==
  LET order == VisitOrder(articles_, sorted_journals(articles_))
  IN [orig_idx \in { order[k] : k \in 1..Len(order) } |->
        (CHOOSE k \in 1..Len(order) : order[k] = orig_idx) - 1]

\* A defect for comparison: the body anchor is numbered by original index.
AnchorName_Orig(index_map, orig_idx) == "article" \o ToString(orig_idx + 1)

\* anchor_name = f"article{new_idx + 1}" of the body loop
AnchorName(index_map, orig_idx) ==
  "article" \o ToString(index_map[orig_idx] + 1)

\* toc_id = f"toc_article{new_idx + 1}"
TocId(index_map, orig_idx) ==
  "toc_article" \o ToString(index_map[orig_idx] + 1)

\* One table-of-contents row for the pair (orig_idx, article) of a journal
\* group; index_map is article_index_map.
TocRow(publication_types_, index_map, orig_idx, article) ==
  LET new_idx == index_map[orig_idx]
      pub_type == publication_types_[orig_idx + 1]
  IN [kind |-> "toc_row",
      orig_idx |-> orig_idx,
      badge |-> ToString(new_idx + 1),
      color |-> PublicationTypeColor(pub_type),
      toc_id |-> TocId(index_map, orig_idx),
      href |-> "#" \o "article" \o ToString(new_idx + 1),
      title |-> article.title]

\* A defect for comparison: last_author is shown whenever it is present.
AuthorInfo_NoDistinctTest(first_author, last_author) ==
  IF Truthy(first_author) /\ Truthy(last_author)
  THEN "<p><b>Authors:</b> " \o first_author \o " ... " \o last_author \o "</p>"
  ELSE IF Truthy(first_author)
       THEN "<p><b>Author:</b> " \o first_author \o "</p>"
       ELSE ""

\* author_info
AuthorInfo(first_author, last_author) ==
  IF Truthy(first_author) /\ Truthy(last_author) /\ first_author # last_author
  THEN "<p><b>Authors:</b> " \o first_author \o " ... " \o last_author \o "</p>"
  ELSE IF Truthy(first_author)
       THEN "<p><b>Author:</b> " \o first_author \o "</p>"
       ELSE ""

\* A defect for comparison: the label and the summary are looked up at the
\* display position instead of the original position.
Card_ByNewIdx(summaries_, publication_types_, index_map, orig_idx, article) ==
  LET new_idx == index_map[orig_idx]
      full_text == summaries_[new_idx + 1]
      pub_type == publication_types_[new_idx + 1]
  IN [kind |-> "card",
      orig_idx |-> orig_idx,
      anchor |-> AnchorName(index_map, orig_idx),
      badge |-> ToString(new_idx + 1),
      color |-> PublicationTypeColor(pub_type),
      title |-> article.title,
      return_href |-> "#" \o TocId(index_map, orig_idx),
      journal |-> article.journal,
      pub_type |-> pub_type,
      pmid |-> article.pmid,
      author_info |-> AuthorInfo(article.first_author, article.last_author),
      full_text_html |-> Replace(full_text, "\n", "<br/>")]

\* One article card of the body for the pair (orig_idx, article) of a
\* journal group; index_map is article_index_map.
Card(summaries_, publication_types_, index_map, orig_idx, article) ==
  LET full_text == summaries_[orig_idx + 1]
      new_idx == index_map[orig_idx]
      pub_type == publication_types_[orig_idx + 1]
  IN [kind |-> "card",
      orig_idx |-> orig_idx,
      anchor |-> AnchorName(index_map, orig_idx),
      badge |-> ToString(new_idx + 1),
      color |-> PublicationTypeColor(pub_type),
      title |-> article.title,
      return_href |-> "#" \o TocId(index_map, orig_idx),
      journal |-> article.journal,
      pub_type |-> pub_type,
      pmid |-> article.pmid,
      author_info |-> AuthorInfo(article.first_author, article.last_author),
      full_text_html |-> Replace(full_text, "\n", "<br/>")]

\* The table of contents: per sorted journal a sub-heading and its rows.
RECURSIVE TocBlock(_, _, _, _)
TocBlock(articles_, publication_types_, index_map, journals) ==
  IF Len(journals) = 0 THEN <<>>
  ELSE LET journal == Head(journals)
           group == JournalGroup(articles_, journal)
           rest == TocBlock(articles_, publication_types_, index_map,
                            Tail(journals))
       IN IF Len(group) = 0 THEN rest
          ELSE <<[kind |-> "toc_h3", journal |-> journal]>>
               \o [k \in 1..Len(group) |->
                     TocRow(publication_types_, index_map,
                            group[k][1], group[k][2])]
               \o rest

\* The body: per sorted journal a section heading and its cards.
RECURSIVE BodyBlock(_, _, _, _, _)
BodyBlock(articles_, summaries_, publication_types_, index_map, journals) ==
  IF Len(journals) = 0 THEN <<>>
  ELSE LET journal == Head(journals)
           group == JournalGroup(articles_, journal)
           rest == BodyBlock(articles_, summaries_, publication_types_,
                             index_map, Tail(journals))
       IN IF Len(group) = 0 THEN rest
          ELSE <<[kind |-> "body_h2", journal |-> journal,
                  anchor |-> "journal_" \o Replace(journal, " ", "_")]>>
               \o [k \in 1..Len(group) |->
                     Card(summaries_, publication_types_, index_map,
                          group[k][1], group[k][2])]
               \o rest

generate_html(articles_, summaries_, publication_types_) ==
  LET journals == sorted_journals(articles_)
      index_map == article_index_map(articles_)
  IN TocBlock(articles_, publication_types_, index_map, journals)
     \o BodyBlock(articles_, summaries_, publication_types_, index_map,
                  journals)

(***************************************************************************)
(* main                                                                    *)
(***************************************************************************)

\* Bound: feed entries one run processes, over all feeds.
MaxEntries == 2

\* feed.entries[:15]
EntryCap == 15

\* Feed entry titles: None stands for an entry without a title attribute.
EntryTitles == {None, "Spinal Cord Stimulation"}

SearchResponses ==
  { [raises |-> TRUE, status_code |-> 0, id_list |-> <<>>],
    [raises |-> FALSE, status_code |-> 500, id_list |-> <<>>],
    [raises |-> FALSE, status_code |-> 200, id_list |-> <<>>],
    [raises |-> FALSE, status_code |-> 200, id_list |-> <<"38000001", "38000002">>] }

TwoAuthors ==
  << [LastName |-> "Wang", Initials |-> "Y"], [LastName |-> "Smith", Initials |-> None] >>

FetchResponses ==
  { [raises |-> TRUE, status_code |-> 0, abstract_sections |-> <<>>,
     author_elements |-> <<>>],
    [raises |-> FALSE, status_code |-> 200, abstract_sections |-> <<>>,
     author_elements |-> TwoAuthors],
    [raises |-> FALSE, status_code |-> 200, abstract_sections |-> <<None, "">>,
     author_elements |-> TwoAuthors],
    [raises |-> FALSE, status_code |-> 200,
     abstract_sections |-> <<"Background.", None, "Results.">>,
     author_elements |-> TwoAuthors] }

LlmError == [kind |-> "error", content |-> None, message |-> "Connection error."]

ClassifyOutcomes ==
  { LlmError,
    [kind |-> "ok", content |-> " randomized clinical trial\n", message |-> ""] }

SummarizeOutcomes ==
  { LlmError,
    [kind |-> "ok", content |-> "Summary\nA.\nContext\nB.", message |-> ""] }

\* The dictionary main appends to articles.
MakeArticle(journal, title, pmid, first_author, last_author) ==
  [journal |-> journal, title |-> title, pmid |-> pmid,
   first_author |-> first_author, last_author |-> last_author]

\* `if not abstract: continue` -- TRUE when the entry goes on.
HasAbstract(abstract) == Truthy(abstract)

\* A defect for comparison: a summary that is an error text is not stored.
AppendSummary_SkipErrors(summaries_, full_summary_context) ==
  IF Contains("Error generating", full_summary_context)
  THEN summaries_
  ELSE Append(summaries_, full_summary_context)

\* summaries_and_contexts.append(full_summary_context)
AppendSummary(summaries_, full_summary_context) ==
  Append(summaries_, full_summary_context)

InitMain ==
  /\ pc = "feeds"
  /\ openai_key_set \in BOOLEAN
  /\ feed_pos = 1
  /\ entry_idx = 0
  /\ articles = <<>>
  /\ publication_types = <<>>
  /\ summaries_and_contexts = <<>>
  /\ calls = <<>>
  /\ entry_log = <<>>
  /\ html = <<>>
  /\ fn = "none"
  /\ arg = None
  /\ ret = None

\* What the log holds as the fetch response of an entry that issued none.
NoFetch ==
  [raises |-> FALSE, status_code |-> 0, abstract_sections |-> <<>>,
   author_elements |-> <<>>]

\* One iteration of the inner loop of main, for one feed entry.
ProcessEntry ==
  /\ pc = "feeds"
  /\ feed_pos <= Len(FEEDS)
  /\ entry_idx < EntryCap
  /\ Len(entry_log) < MaxEntries
  /\ \E entry_title \in EntryTitles, search \in SearchResponses :
       LET journal == FEEDS[feed_pos]
           title == IF entry_title = None THEN "No Title" ELSE entry_title
           pmid == get_pmid(title, journal, search)
       IN IF ~Truthy(pmid)
          THEN /\ calls' = calls \o <<"esearch">>
               /\ entry_log' = Append(entry_log,
                    [journal |-> journal, pmid |-> pmid,
                     response |-> NoFetch, retained |-> FALSE,
                     entry_calls |-> <<"esearch">>])
               /\ entry_idx' = entry_idx + 1
               /\ UNCHANGED <<pc, articles, publication_types,
                              summaries_and_contexts>>
          ELSE \E response \in FetchResponses :
            LET fetched == get_abstract_and_authors(pmid, response)
                abstract == fetched[1]
                first_author == fetched[2]
                last_author == fetched[3]
            IN IF ~HasAbstract(abstract)
               THEN /\ calls' = calls \o <<"esearch">> \o FetchCalls(pmid)
                    /\ entry_log' = Append(entry_log,
                         [journal |-> journal, pmid |-> pmid,
                          response |-> response, retained |-> FALSE,
                          entry_calls |-> <<"esearch">> \o FetchCalls(pmid)])
                    /\ entry_idx' = entry_idx + 1
                    /\ UNCHANGED <<pc, articles, publication_types,
                                   summaries_and_contexts>>
               ELSE IF ~openai_key_set
               THEN \* OpenAI(api_key=None) raises outside the try block
                    /\ pc' = "aborted"
                    /\ calls' = calls \o <<"esearch">> \o FetchCalls(pmid)
                    /\ entry_log' = Append(entry_log,
                         [journal |-> journal, pmid |-> pmid,
                          response |-> response, retained |-> FALSE,
                          entry_calls |-> <<"esearch">> \o FetchCalls(pmid)])
                    /\ UNCHANGED <<entry_idx, articles, publication_types,
                                   summaries_and_contexts>>
               ELSE \E cls \in ClassifyOutcomes, sm \in SummarizeOutcomes :
                 LET pub_type == determine_publication_type(abstract, cls)
                     full_summary_context ==
                       summarize_and_context(abstract, first_author,
                                             last_author, sm)
                 IN /\ publication_types' = Append(publication_types, pub_type)
                    /\ articles' = Append(articles,
                         MakeArticle(journal, title, pmid, first_author,
                                     last_author))
                    /\ summaries_and_contexts' =
                         AppendSummary(summaries_and_contexts,
                                       full_summary_context)
                    /\ calls' = calls \o <<"esearch">> \o FetchCalls(pmid)
                                      \o <<"classify", "summarize">>
                    /\ entry_log' = Append(entry_log,
                         [journal |-> journal, entry_title |-> entry_title,
                          pmid |-> pmid, response |-> response,
                          retained |-> TRUE,
                          entry_calls |-> <<"esearch">> \o FetchCalls(pmid)
                                          \o <<"classify", "summarize">>,
                          classify |-> cls.kind, summarize |-> sm.kind,
                          pub_type |-> pub_type,
                          full_summary_context |-> full_summary_context])
                    /\ entry_idx' = entry_idx + 1
                    /\ UNCHANGED pc
  /\ UNCHANGED <<openai_key_set, feed_pos, html, fn, arg, ret>>

\* The inner loop ends (feed exhausted or cap reached): next feed.
NextFeed ==
  /\ pc = "feeds"
  /\ feed_pos <= Len(FEEDS)
  /\ feed_pos' = feed_pos + 1
  /\ entry_idx' = 0
  /\ UNCHANGED <<pc, openai_key_set, articles, publication_types,
                 summaries_and_contexts, calls, entry_log, html, fn, arg, ret>>

\* A defect for comparison: the digest is sent once per feed with articles.
SendDigest_NoGuard ==
  /\ pc = "feeds"
  /\ articles # <<>>
  /\ html' = generate_html(articles, summaries_and_contexts, publication_types)
  /\ calls' = Append(calls, "send")
  /\ pc' = IF feed_pos > Len(FEEDS) THEN "done" ELSE "feeds"
  /\ feed_pos' = IF feed_pos > Len(FEEDS) THEN feed_pos ELSE feed_pos + 1
  /\ UNCHANGED <<openai_key_set, entry_idx, articles, publication_types,
                 summaries_and_contexts, entry_log, fn, arg, ret>>

\* `if articles:` -- render and send; send_email may raise (SMTP failure).
SendDigest ==
  /\ pc = "feeds"
  /\ feed_pos > Len(FEEDS)
  /\ articles # <<>>
  /\ html' = generate_html(articles, summaries_and_contexts, publication_types)
  /\ calls' = Append(calls, "send")
  /\ \E delivered \in BOOLEAN :
       pc' = IF delivered THEN "done" ELSE "send_failed"
  /\ UNCHANGED <<openai_key_set, feed_pos, entry_idx, articles,
                 publication_types, summaries_and_contexts, entry_log,
                 fn, arg, ret>>

\* `else: print("No articles with abstracts found.")`
NoArticles ==
  /\ pc = "feeds"
  /\ feed_pos > Len(FEEDS)
  /\ articles = <<>>
  /\ pc' = "done"
  /\ UNCHANGED <<openai_key_set, feed_pos, entry_idx, articles,
                 publication_types, summaries_and_contexts, calls, entry_log,
                 html, fn, arg, ret>>

Next == ProcessEntry \/ NextFeed \/ SendDigest \/ NoArticles

Spec == InitMain /\ [][Next]_vars

(***************************************************************************)
(* generate_html on arbitrary aligned inputs                               *)
(***************************************************************************)

\* Bound: length of the article list handed to generate_html.
MaxArticles == 3

HtmlJournals == {"Pain Medicine", "Pain", "Journal of Pain Research"}

HtmlTitles == {"Dorsal root ganglion stimulation", "Epidural steroid injection"}

HtmlTypes == {"Case Report", "Editorial"}

InitHtml ==
  /\ pc = "render"
  /\ \E n \in 0..MaxArticles :
       \E journals \in [1..n -> HtmlJournals], titles \in [1..n -> HtmlTitles],
          types \in [1..n -> HtmlTypes] :
         /\ articles =
              [i \in 1..n |->
                 MakeArticle(journals[i], titles[i], "3800000" \o ToString(i),
                             "Wang Y", IF i % 2 = 0 THEN None ELSE "Smith")]
         /\ publication_types = [i \in 1..n |-> types[i]]
         /\ summaries_and_contexts =
              [i \in 1..n |-> "Summary of " \o ToString(i) \o "\nContext"]
  /\ openai_key_set = TRUE
  /\ feed_pos = 0
  /\ entry_idx = 0
  /\ calls = <<>>
  /\ entry_log = <<>>
  /\ html = <<>>
  /\ fn = "none"
  /\ arg = None
  /\ ret = None

\* html_email = generate_html(articles, summaries_and_contexts, publication_types)
RenderHtml ==
  /\ pc = "render"
  /\ html' = generate_html(articles, summaries_and_contexts, publication_types)
  /\ pc' = "rendered"
  /\ UNCHANGED <<openai_key_set, feed_pos, entry_idx, articles,
                 publication_types, summaries_and_contexts, calls, entry_log,
                 fn, arg, ret>>

NextHtml == RenderHtml

SpecHtml == InitHtml /\ [][NextHtml]_vars

(***************************************************************************)
(* Pure functions applied to bounded inputs                                *)
(***************************************************************************)

\* The pipeline variables while a single function is exercised.
NoRun ==
  /\ openai_key_set = TRUE
  /\ feed_pos = 0
  /\ entry_idx = 0
  /\ articles = <<>>
  /\ publication_types = <<>>
  /\ summaries_and_contexts = <<>>
  /\ calls = <<>>
  /\ entry_log = <<>>
  /\ html = <<>>

\* All sequences over S of length 0..n.
SeqsUpTo(S, n) == UNION { [1..k -> S] : k \in 0..n }

\* Bound: phrases in a title handed to is_spine_related.
MaxTitlePhrases == 2

FilterPhrases ==
  { "Lumbar Fusion", "Outcomes", "Deep Brain Stimulation", "for Lumbar Pain",
    "DISKETTE", "Cauda", "Equina", "Neurosurgery and not Spine" }

FilterTitles == { Join(ps) : ps \in SeqsUpTo(FilterPhrases, MaxTitlePhrases) }

FilterDescriptions == {None, ""} \cup FilterPhrases

InitFilter ==
  /\ pc = "call"
  /\ fn = "is_spine_related"
  /\ arg \in [title : FilterTitles, description : FilterDescriptions]
  /\ ret = None
  /\ NoRun

CallIsSpineRelated ==
  /\ pc = "call"
  /\ fn = "is_spine_related"
  /\ ret' = is_spine_related(arg.title, arg.description)
  /\ pc' = "returned"
  /\ UNCHANGED <<mainVarsButPc, fn, arg>>

NextFilter == CallIsSpineRelated

SpecFilter == InitFilter /\ [][NextFilter]_vars

\* Bound: phrases in a raw classifier response.
MaxResponsePhrases == 2

ResponsePhrases ==
  { "Case Report", "CASE SERIES", "retrospective cohort study",
    "Prospective Study", "prospective cohort", "Meta-analysis",
    "Randomized Clinical Trial", "other", "Editorial", "Review" }

RawResponses ==
  { " " \o Join(ps) \o "\n" : ps \in SeqsUpTo(ResponsePhrases, MaxResponsePhrases) }

InitClassify ==
  /\ pc = "call"
  /\ fn = "determine_publication_type"
  /\ arg \in { LlmError, [kind |-> "ok", content |-> None, message |-> ""] }
             \cup { [kind |-> "ok", content |-> r, message |-> ""] :
                    r \in RawResponses }
  /\ ret = None
  /\ NoRun

CallDeterminePublicationType ==
  /\ pc = "call"
  /\ fn = "determine_publication_type"
  /\ ret' = determine_publication_type("Background. Results.", arg)
  /\ pc' = "returned"
  /\ UNCHANGED <<mainVarsButPc, fn, arg>>

NextClassify == CallDeterminePublicationType

SpecClassify == InitClassify /\ [][NextClassify]_vars

\* Bound: Author elements in a fetched record.
MaxAuthors == 3

AuthorElements ==
  { [LastName |-> "Wang", Initials |-> "Y"],
    [LastName |-> "Li", Initials |-> None],
    [LastName |-> None, Initials |-> "X"],
    [LastName |-> "Smith", Initials |-> "JA"] }

InitAuthors ==
  /\ pc = "call"
  /\ fn = "author_line"
  /\ arg \in { [raises |-> FALSE, status_code |-> 200,
                abstract_sections |-> <<"Background.", "Results.">>,
                author_elements |-> as] :
               as \in SeqsUpTo(AuthorElements, MaxAuthors) }
  /\ ret = None
  /\ NoRun

\* The path of one retained article's authors: get_abstract_and_authors, the
\* dictionary main builds, and the card generate_html renders for it.
RenderAuthorLine ==
  /\ pc = "call"
  /\ fn = "author_line"
  /\ LET fetched == get_abstract_and_authors("38000001", arg)
         article == MakeArticle("Pain", "T", "38000001", fetched[2], fetched[3])
         doc == generate_html(<<article>>, <<"Summary">>, <<"Other">>)
         card == CHOOSE e \in SeqRange(doc) : e.kind = "card"
     IN ret' = [first_author |-> fetched[2], last_author |-> fetched[3],
                author_info |-> card.author_info]
  /\ pc' = "returned"
  /\ UNCHANGED <<mainVarsButPc, fn, arg>>

NextAuthors == RenderAuthorLine

SpecAuthors == InitAuthors /\ [][NextAuthors]_vars

\* Bound: consecutive calls of get_abstract_and_authors in one process.
MaxFetches == 3

\* Identifiers handed to get_abstract_and_authors, the empty ones included.
FetchPmids == {None, "", "38000001", "38000002"}

\* What efetch can answer, the non-200 answer included.
EfetchResponses ==
  FetchResponses \cup
    { [raises |-> FALSE, status_code |-> 500, abstract_sections |-> <<>>,
       author_elements |-> <<>>] }

InitFetch ==
  /\ pc = "call"
  /\ fn = "get_abstract_and_authors"
  /\ arg = None
  /\ ret = None
  /\ NoRun

\* One call of get_abstract_and_authors; the process makes several in a row.
CallGetAbstractAndAuthors ==
  /\ pc \in {"call", "returned"}
  /\ fn = "get_abstract_and_authors"
  /\ Len(entry_log) < MaxFetches
  /\ \E pmid \in FetchPmids :
       \E response \in (IF Truthy(pmid) THEN EfetchResponses ELSE {NoFetch}) :
         /\ arg' = pmid
         /\ ret' = get_abstract_and_authors(pmid, response)
         /\ calls' = calls \o FetchCalls(pmid)
         /\ entry_log' = Append(entry_log,
              [pmid |-> pmid, response |-> response,
               entry_calls |-> FetchCalls(pmid)])
  /\ pc' = "returned"
  /\ UNCHANGED <<openai_key_set, feed_pos, entry_idx, articles,
                 publication_types, summaries_and_contexts, html, fn>>

NextFetch == CallGetAbstractAndAuthors

SpecFetch == InitFetch /\ [][NextFetch]_vars

\* Bound: records in the answer of the recipient store.
MaxRecords == 3

\* "Email" values of a record: absent, empty, blank, plain, padded.
EmailValues == {None, "", "  ", "a@x.org", "\tb@y.org\r\n"}

StoreRecords == { [fields |-> [Email |-> v]] : v \in EmailValues }

StoreResponses ==
  { [raises |-> TRUE, has_records |-> FALSE, records |-> <<>>],
    [raises |-> FALSE, has_records |-> FALSE, records |-> <<>>] }
  \cup { [raises |-> FALSE, has_records |-> TRUE, records |-> rs] :
         rs \in SeqsUpTo(StoreRecords, MaxRecords) }

InitEmails ==
  /\ pc = "call"
  /\ fn = "fetch_emails_from_airtable"
  /\ arg \in StoreResponses
  /\ ret = None
  /\ NoRun

\* EMAIL_RECEIVER = fetch_emails_from_airtable(); a transport or decoding
\* exception is not caught and ends the process at import.
CallFetchEmails ==
  /\ pc = "call"
  /\ fn = "fetch_emails_from_airtable"
  /\ IF arg.raises
     THEN pc' = "aborted" /\ ret' = ret
     ELSE pc' = "returned" /\ ret' = fetch_emails_from_airtable(arg)
  /\ UNCHANGED <<mainVarsButPc, fn, arg>>

NextEmails == CallFetchEmails

SpecEmails == InitEmails /\ [][NextEmails]_vars

(***************************************************************************)
(* Properties of the rendered digest (SpecHtml)                            *)
(***************************************************************************)

Rendered == pc = "rendered"

ElementsOfKind(kind) == SelectSeq(html, LAMBDA e : e.kind = kind)

TocRows == ElementsOfKind("toc_row")

Cards == ElementsOfKind("card")

\* The elements of kind `kind` rendered for the article at input position o.
ElementsFor(kind, o) ==
  { p \in 1..Len(html) : html[p].kind = kind /\ html[p].orig_idx = o }

\* The display numbers 1..n as the template prints them.
Numerals(n) == { ToString(k) : k \in 1..n }

NumberOf(badge) == CHOOSE k \in 1..Len(articles) : ToString(k) = badge

\* C1: for a non-empty article list the display indices are exactly 1..n,
\* one per article, the same on the contents row and the card of an article,
\* and every article of a journal that sorts earlier has a smaller index
\* than every article of a journal that sorts later.
C1_DenseSortedIndex ==
  (Rendered /\ Len(articles) > 0) =>
    /\ Len(Cards) = Len(articles)
    /\ Len(TocRows) = Len(articles)
    /\ { Cards[k].badge : k \in 1..Len(Cards) } = Numerals(Len(articles))
    /\ { TocRows[k].badge : k \in 1..Len(TocRows) } = Numerals(Len(articles))
    /\ \A o \in 0..(Len(articles) - 1) :
         \E c \in ElementsFor("card", o), r \in ElementsFor("toc_row", o) :
           html[c].badge = html[r].badge
    /\ \A k, l \in 1..Len(Cards) :
         StrLess(Cards[k].journal, Cards[l].journal)
           => NumberOf(Cards[k].badge) < NumberOf(Cards[l].badge)
    /\ \A k \in 1..Len(Cards) :
         Cards[k].journal = articles[Cards[k].orig_idx + 1].journal

\* C1 witness: fetched as [Pain Medicine, Pain]; "Pain" sorts first, so the
\* second fetched article carries 1 and the first carries 2.
C1_Witness ==
  /\ Rendered
  /\ Len(articles) = 2
  /\ articles[1].journal = "Pain Medicine"
  /\ articles[2].journal = "Pain"
  /\ \E c \in ElementsFor("card", 1) : html[c].badge = "1"
  /\ \E c \in ElementsFor("card", 0) : html[c].badge = "2"

\* C2: every contents link target article{N} is the anchor of exactly one
\* card, and that card is the card of the article the contents row names.
C2_TocTargetsResolve ==
  Rendered =>
    \A k \in 1..Len(TocRows) :
      LET targets == { c \in 1..Len(Cards) :
                         "#" \o Cards[c].anchor = TocRows[k].href }
      IN /\ Cardinality(targets) = 1
         /\ \A c \in targets :
              /\ Cards[c].orig_idx = TocRows[k].orig_idx
              /\ Cards[c].title = TocRows[k].title
              /\ Cards[c].anchor = "article" \o TocRows[k].badge

\* C2 witness: three articles whose display order differs from the input
\* order, each contents row pointing at the card of its own article.
C2_Witness ==
  /\ Rendered
  /\ Len(articles) = 3
  /\ articles[1].journal = "Pain Medicine"
  /\ articles[2].journal = "Journal of Pain Research"
  /\ articles[3].journal = "Pain"
  /\ articles[1].title # articles[2].title
  /\ \E k \in 1..3, c \in 1..3 :
       /\ TocRows[k].orig_idx = 0
       /\ TocRows[k].href = "#article3"
       /\ Cards[c].anchor = "article3"
       /\ Cards[c].orig_idx = 0

Headings == {"toc_h3", "body_h2"}

\* Positions of the headings of kind `kind` for journal j.
HeadingsFor(kind, j) ==
  { p \in 1..Len(html) : html[p].kind = kind /\ html[p].journal = j }

\* The positions between the heading at p and the next heading of any kind.
SectionOf(p) ==
  { q \in (p + 1)..Len(html) :
      \A m \in (p + 1)..q : html[m].kind \notin Headings }

\* Input positions (0-based) of the articles of journal j.
IndicesOf(j) == { i - 1 : i \in { m \in 1..Len(articles) : articles[m].journal = j } }

\* The section under heading p lists exactly the articles of journal j, as
\* elements of kind itemKind, in their input order.
SectionListsJournal(p, j, itemKind) ==
  /\ \A q \in SectionOf(p) : html[q].kind = itemKind
  /\ { html[q].orig_idx : q \in SectionOf(p) } = IndicesOf(j)
  /\ Cardinality(SectionOf(p)) = Cardinality(IndicesOf(j))
  /\ \A q1, q2 \in SectionOf(p) :
       q1 < q2 => html[q1].orig_idx < html[q2].orig_idx

\* C9: each journal with an article has exactly one sub-heading in the
\* contents and exactly one section heading in the body; all its articles,
\* and only they, are listed under it, in their original relative order.
C9_OneHeadingPerJournal ==
  Rendered =>
    /\ \A j \in JournalKeys(articles) :
         /\ Cardinality(HeadingsFor("toc_h3", j)) = 1
         /\ Cardinality(HeadingsFor("body_h2", j)) = 1
         /\ \A p \in HeadingsFor("toc_h3", j) : SectionListsJournal(p, j, "toc_row")
         /\ \A p \in HeadingsFor("body_h2", j) : SectionListsJournal(p, j, "card")
    /\ \A p \in 1..Len(html) :
         html[p].kind \in Headings => html[p].journal \in JournalKeys(articles)

\* C9 witness: two articles of one journal separated in the input by an
\* article of another journal, listed together under a single heading.
C9_Witness ==
  /\ Rendered
  /\ Len(articles) = 3
  /\ articles[1].journal = "Pain"
  /\ articles[2].journal = "Journal of Pain Research"
  /\ articles[3].journal = "Pain"
  /\ \E p \in HeadingsFor("body_h2", "Pain") :
       { html[q].orig_idx : q \in SectionOf(p) } = {0, 2}

\* The badge colour the digest is to show for a label: the colour listed
\* for it, the colour of "Other" for a label that is not listed.
ExpectedColor(pub_type) ==
  IF \E k \in 1..Len(PUBLICATION_TYPES) : PUBLICATION_TYPES[k][1] = pub_type
  THEN PUBLICATION_TYPES[CHOOSE k \in 1..Len(PUBLICATION_TYPES) :
                           PUBLICATION_TYPES[k][1] = pub_type][2]
  ELSE "#f5f5f5"

\* Positions of the cards that name the PMID of the article at position o.
CardsOfArticle(o) ==
  { p \in 1..Len(html) :
      html[p].kind = "card" /\ html[p].pmid = articles[o + 1].pmid }

\* C14: the digest has one contents row and one card per input article and
\* no others; the card of an article carries its title, journal, the label
\* stored at its input position with that label's colour, and the summary
\* stored at its input position; its contents row carries its title and the
\* same colour and links to that card.
C14_DataFollowsArticle ==
  Rendered =>
    /\ Len(Cards) = Len(articles)
    /\ Len(TocRows) = Len(articles)
    /\ \A o \in 0..(Len(articles) - 1) :
         /\ Cardinality(CardsOfArticle(o)) = 1
         /\ Cardinality(ElementsFor("toc_row", o)) = 1
         /\ LET card == html[CHOOSE p \in CardsOfArticle(o) : TRUE]
                row == html[CHOOSE p \in ElementsFor("toc_row", o) : TRUE]
            IN /\ card.title = articles[o + 1].title
               /\ card.journal = articles[o + 1].journal
               /\ card.pub_type = publication_types[o + 1]
               /\ card.color = ExpectedColor(publication_types[o + 1])
               /\ card.full_text_html =
                    Replace(summaries_and_contexts[o + 1], "\n", "<br/>")
               /\ row.title = articles[o + 1].title
               /\ row.color = ExpectedColor(publication_types[o + 1])
               /\ row.href = "#" \o card.anchor

\* C14 witness: the second input article is shown first; its card shows its
\* own listed label and summary, and the card of the first input article,
\* shown second, shows an unlisted label in the default colour.
C14_Witness ==
  /\ Rendered
  /\ Len(articles) = 2
  /\ articles[1].journal = "Pain Medicine"
  /\ articles[2].journal = "Pain"
  /\ articles[1].title # articles[2].title
  /\ publication_types = <<"Editorial", "Case Report">>
  /\ Cards[1].pmid = articles[2].pmid
  /\ Cards[1].color = "#98fb98"
  /\ Cards[1].full_text_html = "Summary of 2<br/>Context"
  /\ Cards[2].pmid = articles[1].pmid
  /\ Cards[2].color = "#f5f5f5"
  /\ TocRows[2].color = "#f5f5f5"

(***************************************************************************)
(* Properties of a run of main (Spec)                                      *)
(***************************************************************************)

\* main has executed its final if/else.
RunEnded == pc \in {"done", "send_failed"}

CountOf(call) == Cardinality({ i \in 1..Len(calls) : calls[i] = call })

\* The log records of the entries that were appended to the collections.
Retained == SelectSeq(entry_log, LAMBDA e : e.retained)

\* C3: send_email is invoked at most once; an invocation comes after all
\* feeds were processed, as the last external call, with at least one
\* article; a run that reaches the end of main has sent exactly once if it
\* retained an article and not at all otherwise, and with no article it ends
\* without error.
C3_SendOnceIffArticles ==
  /\ CountOf("send") <= 1
  /\ CountOf("send") = 1 =>
       /\ feed_pos > Len(FEEDS)
       /\ calls[Len(calls)] = "send"
       /\ Len(articles) >= 1
       /\ RunEnded
  /\ RunEnded => (CountOf("send") = 1 <=> Len(articles) >= 1)
  /\ (RunEnded /\ Len(articles) = 0) => pc = "done"

\* C3 witness: a finished run over two entries, one dropped and one
\* retained, that sent one digest.
C3_Witness ==
  /\ pc = "done"
  /\ Len(entry_log) = 2
  /\ Len(articles) = 1
  /\ CountOf("send") = 1
  /\ html # <<>>

\* C4: the three collections have the same length and position i of each
\* holds the record, the label and the summary of the i-th retained entry.
C4_LockStep ==
  /\ Len(articles) = Len(Retained)
  /\ Len(publication_types) = Len(Retained)
  /\ Len(summaries_and_contexts) = Len(Retained)
  /\ \A i \in 1..Len(Retained) :
       /\ articles[i].journal = Retained[i].journal
       /\ articles[i].pmid = Retained[i].pmid
       /\ articles[i].title = (IF Retained[i].entry_title = None
                               THEN "No Title" ELSE Retained[i].entry_title)
       /\ publication_types[i] = Retained[i].pub_type
       /\ summaries_and_contexts[i] = Retained[i].full_summary_context

\* C4 witness: generate_html was called with two articles; for the first
\* the classification fell back to "Other" and the summary is the error
\* text, the second has a recognised label and a real summary.
C4_Witness ==
  /\ RunEnded
  /\ html # <<>>
  /\ Len(articles) = 2
  /\ articles[1].journal # articles[2].journal
  /\ publication_types[1] = "Other"
  /\ Contains("Error generating summary", summaries_and_contexts[1])
  /\ publication_types[2] = "Randomized Clinical Trial"
  /\ ~Contains("Error generating summary", summaries_and_contexts[2])

\* The fetched record has no AbstractText element, or none with text.
NoAbstractText(response) ==
  /\ ~response.raises
  /\ response.status_code = 200
  /\ \A k \in 1..Len(response.abstract_sections) :
       response.abstract_sections[k] = None \/ response.abstract_sections[k] = ""

\* C8: an entry whose fetched record has no abstract text gets "no abstract"
\* from get_abstract_and_authors, is appended to no collection, causes no
\* classifier or summarizer call, and has no row or card in the digest.
C8_NoAbstractDropped ==
  /\ \A i \in 1..Len(entry_log) :
       (Truthy(entry_log[i].pmid) /\ NoAbstractText(entry_log[i].response)) =>
         /\ get_abstract_and_authors(entry_log[i].pmid, entry_log[i].response)[1] = None
         /\ ~entry_log[i].retained
         /\ \A k \in 1..Len(entry_log[i].entry_calls) :
              entry_log[i].entry_calls[k] \notin {"classify", "summarize"}
  /\ Len(articles) = Len(Retained)
  /\ Len(publication_types) = Len(Retained)
  /\ Len(summaries_and_contexts) = Len(Retained)
  /\ CountOf("classify") = Len(Retained)
  /\ CountOf("summarize") = Len(Retained)
  /\ html # <<>> => (Len(Cards) = Len(Retained) /\ Len(TocRows) = Len(Retained))

\* C8 witness: a finished run in which an entry whose abstract sections are
\* all empty was fetched and dropped, and the digest holds the other entry.
C8_Witness ==
  /\ pc = "done"
  /\ Len(entry_log) = 2
  /\ entry_log[1].response.abstract_sections = <<None, "">>
  /\ entry_log[1].entry_calls = <<"esearch", "sleep", "efetch">>
  /\ ~entry_log[1].retained
  /\ entry_log[2].retained
  /\ Len(Cards) = 1

\* C10: an entry whose title is missing, like an entry whose abstract is
\* missing, never yields an article in the collections passed on: every
\* retained entry had a title and an abstract.
C10_DataErrorsDropped ==
  \A i \in 1..Len(entry_log) :
    entry_log[i].retained =>
      /\ entry_log[i].entry_title # None
      /\ ~NoAbstractText(entry_log[i].response)

\* The fetched record carries abstract text.
HasAbstractText(response) ==
  /\ ~response.raises
  /\ response.status_code = 200
  /\ \E k \in 1..Len(response.abstract_sections) :
       Truthy(response.abstract_sections[k])

\* Number of retained entries among the first i log records: the position
\* in the collections of the article of entry i when it is retained.
RetainedUpTo(i) ==
  Cardinality({ m \in 1..i : entry_log[m].retained })

\* The log records whose classifier or summarizer call failed.
LlmFailures ==
  { i \in 1..Len(entry_log) :
      /\ entry_log[i].retained
      /\ (entry_log[i].classify = "error" \/ entry_log[i].summarize = "error") }

\* C11: the language-model step never ends the run: main is running or has
\* ended through its final branch; every processed entry with a PMID and
\* abstract text is retained; if its classifier call failed its label is
\* "Other", if its summarizer call failed its summary is the error text;
\* and a run that ended has sent a digest whose card for that article shows
\* the label and the text.
C11_LlmFailureNotFatal ==
  /\ pc \in {"feeds", "done", "send_failed"}
  /\ \A i \in 1..Len(entry_log) :
       (Truthy(entry_log[i].pmid) /\ HasAbstractText(entry_log[i].response)) =>
         /\ entry_log[i].retained
         /\ RetainedUpTo(i) <= Len(articles)
         /\ articles[RetainedUpTo(i)].pmid = entry_log[i].pmid
         /\ entry_log[i].classify = "error" =>
              publication_types[RetainedUpTo(i)] = "Other"
         /\ entry_log[i].summarize = "error" =>
              summaries_and_contexts[RetainedUpTo(i)] =
                "Error generating summary and context: " \o LlmError.message
  /\ (LlmFailures # {} /\ RunEnded) =>
       /\ CountOf("send") = 1
       /\ \A i \in LlmFailures :
            \E c \in 1..Len(Cards) :
              /\ Cards[c].orig_idx = RetainedUpTo(i) - 1
              /\ Cards[c].pub_type = entry_log[i].pub_type
              /\ Cards[c].full_text_html =
                   Replace(entry_log[i].full_summary_context, "\n", "<br/>")

(***************************************************************************)
(* Properties of the pure functions                                        *)
(***************************************************************************)

Returned == pc = "returned"

\* k occurs in s as a substring when case is ignored.
OccursIgnoringCase(k, s) ==
  \E i \in 1..(Len(s) - Len(k) + 1) :
    \A j \in 1..Len(k) :
      LowerChar(CharAt(k, j)) = LowerChar(CharAt(s, i + j - 1))

AnyOccurs(keywords, s) ==
  \E i \in 1..Len(keywords) : OccursIgnoringCase(keywords[i], s)

\* Title and description joined by one space (the title alone when there is
\* no description); an absent title counts as empty.
TitleAndDescription(a) ==
  IF Truthy(a.description) THEN a.title \o " " \o a.description ELSE a.title

\* C5 as stated: for every title and optional description the result is
\* true iff an inclusion keyword and no exclusion keyword occurs.
C5_Original ==
  (Returned /\ fn = "is_spine_related") =>
    (ret <=> (/\ AnyOccurs(SPINE_KEYWORDS, TitleAndDescription(arg))
              /\ ~AnyOccurs(EXCLUSION_KEYWORDS, TitleAndDescription(arg))))

\* C5 amended: the equivalence holds for every non-empty title; for an
\* empty title the result is false whatever the description.
C5_FilterIffNonEmptyTitle ==
  (Returned /\ fn = "is_spine_related") =>
    IF arg.title = "" THEN ret = FALSE
    ELSE (ret <=> (/\ AnyOccurs(SPINE_KEYWORDS, TitleAndDescription(arg))
                   /\ ~AnyOccurs(EXCLUSION_KEYWORDS, TitleAndDescription(arg))))

\* C5 witness: "Deep Brain Stimulation for Lumbar Pain" has an inclusion
\* keyword and an exclusion keyword and is rejected.
C5_Witness ==
  /\ Returned
  /\ fn = "is_spine_related"
  /\ arg.title = "Deep Brain Stimulation for Lumbar Pain"
  /\ AnyOccurs(SPINE_KEYWORDS, arg.title)
  /\ ret = FALSE

\* The indices of the labels that occur in the raw text, case ignored.
LabelsOccurring(raw) ==
  { i \in 1..Len(PUBLICATION_TYPES) : OccursIgnoringCase(PUBLICATION_TYPES[i][1], raw) }

\* C7: the result is the first label, in enumeration order, occurring in
\* the raw text with case ignored, "Other" when none occurs, and always a
\* member of the enumeration.
C7_FirstLabelInEnumerationOrder ==
  (Returned /\ fn = "determine_publication_type") =>
    /\ ret \in PublicationTypeKeys
    /\ (arg.kind = "ok" /\ arg.content # None) =>
         IF LabelsOccurring(arg.content) = {} THEN ret = "Other"
         ELSE \E i \in LabelsOccurring(arg.content) :
                /\ ret = PUBLICATION_TYPES[i][1]
                /\ \A j \in LabelsOccurring(arg.content) : i <= j

\* C7 witness: the text names "Prospective Study" before "prospective
\* cohort"; the label earlier in the enumeration is returned.
C7_Witness ==
  /\ Returned
  /\ fn = "determine_publication_type"
  /\ arg.kind = "ok"
  /\ arg.content = " Prospective Study prospective cohort\n"
  /\ ret = "Prospective Cohort"

\* The author list as extracted: one name per Author element with a
\* LastName text.
ExtractedAuthors(response) ==
  LET named == SelectSeq(response.author_elements,
                         LAMBDA a : a.LastName # None /\ a.LastName # "")
  IN [k \in 1..Len(named) |->
        IF named[k].Initials # None /\ named[k].Initials # ""
        THEN named[k].LastName \o " " \o named[k].Initials
        ELSE named[k].LastName]

AuthorsLine(x, y) == "<p><b>Authors:</b> " \o x \o " ... " \o y \o "</p>"

AuthorLine(x) == "<p><b>Author:</b> " \o x \o "</p>"

\* C6 as stated: at least two distinct authors give "Authors: X ... Y" with
\* the first and last of the list, exactly one author gives "Author: X",
\* no author gives no author line.
C6_Original ==
  (Returned /\ fn = "author_line") =>
    LET authors == ExtractedAuthors(arg)
    IN /\ Cardinality(SeqRange(authors)) >= 2 =>
            ret.author_info = AuthorsLine(authors[1], authors[Len(authors)])
       /\ Len(authors) = 1 => ret.author_info = AuthorLine(authors[1])
       /\ Len(authors) = 0 => ret.author_info = ""

\* C6 amended: "Authors: X ... Y" when the list has at least two authors
\* and its first and last differ; "Author: X" when it has exactly one
\* author or its first and last are the same name; no line when empty.
C6_AuthorLine ==
  (Returned /\ fn = "author_line") =>
    LET authors == ExtractedAuthors(arg)
    IN /\ (Len(authors) >= 2 /\ authors[1] # authors[Len(authors)]) =>
            ret.author_info = AuthorsLine(authors[1], authors[Len(authors)])
       /\ (Len(authors) >= 2 /\ authors[1] = authors[Len(authors)]) =>
            ret.author_info = AuthorLine(authors[1])
       /\ Len(authors) = 1 => ret.author_info = AuthorLine(authors[1])
       /\ Len(authors) = 0 => ret.author_info = ""

\* C6 witness: three Author elements, the middle one without a LastName;
\* the line names the first and the last extracted author.
C6_Witness ==
  /\ Returned
  /\ fn = "author_line"
  /\ Len(arg.author_elements) = 3
  /\ Len(ExtractedAuthors(arg)) = 2
  /\ ret.author_info = "<p><b>Authors:</b> Wang Y ... Smith JA</p>"

\* C12: in the sequence of external calls every efetch request comes
\* directly after a delay and every delay directly before a request, so
\* there are as many delays as requests and a delay lies between any two
\* requests; a call with an empty identifier returns "no data" and issues
\* neither, a call with an identifier issues exactly one delay and then one
\* request.
C12_DelayBeforeEachFetch ==
  fn = "get_abstract_and_authors" =>
    /\ \A k \in 1..Len(calls) :
         /\ calls[k] = "efetch" => (k > 1 /\ calls[k - 1] = "sleep")
         /\ calls[k] = "sleep" => (k < Len(calls) /\ calls[k + 1] = "efetch")
    /\ CountOf("sleep") = CountOf("efetch")
    /\ CountOf("efetch") =
         Cardinality({ i \in 1..Len(entry_log) : Truthy(entry_log[i].pmid) })
    /\ \A i \in 1..Len(entry_log) :
         IF Truthy(entry_log[i].pmid)
         THEN entry_log[i].entry_calls = <<"sleep", "efetch">>
         ELSE entry_log[i].entry_calls = <<>>
    /\ (Returned /\ ~Truthy(arg)) => ret = <<None, None, None>>

\* C12 witness: a fetch, a call with no identifier, and a fetch that got a
\* non-200 answer: two requests, each behind its own delay.
C12_Witness ==
  /\ fn = "get_abstract_and_authors"
  /\ Returned
  /\ Len(entry_log) = 3
  /\ Truthy(entry_log[1].pmid)
  /\ entry_log[2].pmid = None
  /\ entry_log[3].response.status_code = 500
  /\ calls = <<"sleep", "efetch", "sleep", "efetch">>
  /\ ret = <<None, None, None>>

\* The value is missing, empty or made of white space only.
Blank(v) == v = None \/ \A k \in 1..Len(v) : IsSpace(CharAt(v, k))

\* The records of the answer whose "Email" value is present and not blank.
AddressedRecords(response) ==
  SelectSeq(IF response.has_records THEN response.records ELSE <<>>,
            LAMBDA record : ~Blank(record.fields.Email))

\* C13: the list returned by fetch_emails_from_airtable has one address per
\* record whose "Email" value is present and not blank, in record order,
\* and no element of the list is empty or blank.
C13_BlankEmailsSkipped ==
  (Returned /\ fn = "fetch_emails_from_airtable") =>
    /\ Len(ret) = Len(AddressedRecords(arg))
    /\ \A i \in 1..Len(ret) :
         /\ ret[i] = Strip(AddressedRecords(arg)[i].fields.Email)
         /\ ~Blank(ret[i])

====
